---- MODULE Spec2Model ----
\* Model of plugins/123STRM/123strm.py: the recursive synchronizer that mirrors a
\* remote directory tree into a local one (pointer files for videos, resumable
\* downloads for subtitles).
EXTENDS Integers, Sequences, FiniteSets, TLC

\* ---------------------------------------------------------------- bounds

\* Number of consecutive runs of the program that are explored.
MaxRuns == 2

\* ------------------------------------------------------ program constants

MAX_RETRIES == 3
REQUEST_DELAY == 1
DIR_DELAY == 2
WAIT_MULTIPLIER == 1
WAIT_MIN == 2
WAIT_MAX == 10
NAME_CAP == 200

DIRECT_LINK_SERVICE_URL == "http://172.17.0.1:8123"

VIDEO_EXTS ==
    << <<".", "m", "p", "4">>, <<".", "m", "k", "v">>, <<".", "a", "v", "i">>,
       <<".", "m", "o", "v">>, <<".", "f", "l", "v">>, <<".", "t", "s">>,
       <<".", "i", "s", "o">>, <<".", "r", "m", "v", "b">>,
       <<".", "m", "2", "t", "s">> >>

SUBTITLE_EXTS ==
    << <<".", "s", "r", "t">>, <<".", "a", "s", "s">>, <<".", "s", "s", "a">>,
       <<".", "s", "u", "b">>, <<".", "t", "x", "t">>, <<".", "v", "t", "t">>,
       <<".", "t", "t", "m", "l">>, <<".", "d", "f", "x", "p">> >>

STRM_EXT == <<".", "s", "t", "r", "m">>

\* -------------------------------------------------- strings (as char tuples)

UpperChars ==
    <<"A","B","C","D","E","F","G","H","I","J","K","L","M",
      "N","O","P","Q","R","S","T","U","V","W","X","Y","Z">>

LowerChars ==
    <<"a","b","c","d","e","f","g","h","i","j","k","l","m",
      "n","o","p","q","r","s","t","u","v","w","x","y","z">>

LowerChar(c) ==
    IF \E i \in 1..Len(UpperChars) : UpperChars[i] = c
    THEN LowerChars[CHOOSE i \in 1..Len(UpperChars) : UpperChars[i] = c]
    ELSE c

\* str.lower()
Lower(s) == [i \in 1..Len(s) |-> LowerChar(s[i])]

\* str.endswith(suffix)
EndsWith(s, suf) ==
    /\ Len(s) >= Len(suf)
    /\ SubSeq(s, Len(s) - Len(suf) + 1, Len(s)) = suf

\* str.endswith(tuple of suffixes)
EndsWithAny(s, exts) == \E i \in 1..Len(exts) : EndsWith(s, exts[i])

\* str.rfind(c), 1-based, 0 when c does not occur
RFind(s, c) ==
    IF \E i \in 1..Len(s) : s[i] = c
    THEN CHOOSE i \in 1..Len(s) : s[i] = c /\ \A j \in (i+1)..Len(s) : s[j] # c
    ELSE 0

\* os.path.splitext(p)[0]: the extension starts at the last dot, unless that dot
\* is among the leading dots of the last path component.
SplitExtBase(p) ==
    LET sepIndex == RFind(p, "/")
        dotIndex == RFind(p, ".")
    IN  IF /\ dotIndex > sepIndex
           /\ \E k \in (sepIndex + 1)..(dotIndex - 1) : p[k] # "."
        THEN SubSeq(p, 1, dotIndex - 1)
        ELSE p

ReservedChars == {"\\", "/", ":", "*", "?", "<", ">", "|", "\t", "\""}

WhitespaceChars == {" ", "\t", "\n", "\r", "\f"}

\* re.sub(r'[\\/:*?<>|\t"]', "_", filename)
ReplaceReserved(s) ==
    [i \in 1..Len(s) |-> IF s[i] \in ReservedChars THEN "_" ELSE s[i]]

\* str.strip()
Strip(s) ==
    LET keep == {i \in 1..Len(s) : s[i] \notin WhitespaceChars}
    IN  IF keep = {} THEN <<>>
        ELSE LET lo == CHOOSE i \in keep : \A j \in keep : i <= j
                 hi == CHOOSE i \in keep : \A j \in keep : j <= i
             IN  SubSeq(s, lo, hi)

sanitize_filename(filename) ==
    LET clean_name == Strip(ReplaceReserved(filename))
    IN  SubSeq(clean_name, 1, IF Len(clean_name) < NAME_CAP
                                THEN Len(clean_name) ELSE NAME_CAP)

\* ------------------------------------------------------------ local paths

\* A path is the tuple of its components; os.path.join appends one component
\* (a sanitized name holds no separator and never restarts the path).
Join(path, name) == Append(path, name)

DotName == <<".">>
DotDotName == <<".", ".">>

\* The entry of the filesystem a path names: empty and "." components name the
\* directory itself, ".." names its parent.
SpecialNames == {<<>>, DotName, DotDotName}

RECURSIVE Resolve(_)
Resolve(path) ==
    IF \A k \in 1..Len(path) : path[k] \notin SpecialNames THEN path
    ELSE LET front == Resolve(SubSeq(path, 1, Len(path) - 1))
             name == path[Len(path)]
         IN  IF name = <<>> \/ name = DotName THEN front
             ELSE IF name = DotDotName
                  THEN SubSeq(front, 1, IF Len(front) = 0 THEN 0 ELSE Len(front) - 1)
                  ELSE Append(front, name)

\* os.path.dirname
DirName(path) == SubSeq(path, 1, Len(path) - 1)

Prefixes(path) == {SubSeq(path, 1, n) : n \in 0..Len(path)}

\* LOCAL_PATH, the local library root, as an absolute path.
LOCAL_PATH == << <<"l", "i", "b">> >>

\* ------------------------------------------------------- local filesystem

\* The filesystem maps the resolved paths that exist to their entries.
DirEntry == [kind |-> "dir", data |-> <<>>]
FileEntry(bytes) == [kind |-> "file", data |-> bytes]

\* st_size of a directory entry (never the size of a subtitle of the model).
DIR_ST_SIZE == 4096

\* os.path.exists
Exists(f, path) == Resolve(path) \in DOMAIN f

\* os.path.getsize
GetSize(f, path) ==
    LET e == f[Resolve(path)]
    IN  IF e.kind = "dir" THEN DIR_ST_SIZE ELSE Len(e.data)

Put(f, key, entry) ==
    [q \in DOMAIN f \cup {key} |-> IF q = key THEN entry ELSE f[q]]

\* os.makedirs(path, exist_ok=True) succeeds when no component is a file and
\* the disk lets the missing directories be created.
MakeDirsOk(f, d, path) ==
    LET key == Resolve(path)
    IN  /\ \A q \in Prefixes(key) : q \in DOMAIN f => f[q].kind = "dir"
        /\ (Prefixes(key) \subseteq DOMAIN f \/ d # "readonly")

MakeDirs(f, path) ==
    LET key == Resolve(path)
    IN  IF key \in DOMAIN f THEN f
        ELSE [q \in DOMAIN f \cup Prefixes(key) |->
                IF q \in DOMAIN f THEN f[q] ELSE DirEntry]

\* open(path, mode) for writing succeeds on a writable disk when the parent is
\* a directory and the path itself is not one.
OpenOk(f, d, path) ==
    LET key == Resolve(path)
    IN  /\ d # "readonly"
        /\ key # <<>>
        /\ DirName(key) \in DOMAIN f
        /\ f[DirName(key)].kind = "dir"
        /\ (key \in DOMAIN f => f[key].kind = "file")

\* What f.write leaves in the file: on a full disk no byte is stored.
Stored(d, bytes) == IF d = "full" THEN <<>> ELSE bytes

\* The write raises when the disk is full and there is something to write.
WriteOk(d, bytes) == d # "full" \/ bytes = <<>>

\* ------------------------------------------------------------ remote tree

\* An item as iterdir yields it.
Item(id, name, type, size) ==
    [FileId |-> id, FileName |-> name, Type |-> type, Size |-> size]

\* A remote tree: the id of the start directory, the items by id, each
\* directory's listing in the order the remote returns it, each item's parent.
TreeA ==
    [ root |-> 0,
      items |-> [i \in {1, 2, 3, 4, 5} |->
          CASE i = 1 -> Item(1, <<"S", "h", "o", "w">>, 1, 0)
            [] i = 2 -> Item(2, <<"E", "p", ".", "M", "K", "V">>, 0, 7)
            [] i = 3 -> Item(3, <<"E", "p", ".", "s", "r", "t">>, 0, 2)
            [] i = 4 -> Item(4, <<"E", "p", ".", "n", "f", "o">>, 0, 4)
            [] i = 5 -> Item(5, <<"m", "k", "v">>, 0, 6)],
      children |-> [d \in {0, 1} |->
          IF d = 0 THEN <<1, 5>> ELSE <<2, 3, 4>>],
      parent |-> [i \in {1, 2, 3, 4, 5} |-> IF i \in {1, 5} THEN 0 ELSE 1] ]

TreeB ==
    [ root |-> 0,
      items |-> [i \in {6, 7, 8, 9} |->
          CASE i = 6 -> Item(6, <<"A", "?", ".", "t", "s">>, 0, 5)
            [] i = 7 -> Item(7, <<" ", "b", ".", "T", "X", "T">>, 0, 3)
            [] i = 8 -> Item(8, <<"c", ".", "m", "k", "v", ".", "b", "a", "k">>, 0, 1)
            [] i = 9 -> Item(9, <<"E", "m", "p", "t", "y">>, 1, 0)],
      children |-> [d \in {0, 9} |->
          IF d = 0 THEN <<6, 9, 7, 8>> ELSE <<>>],
      parent |-> [i \in {6, 7, 8, 9} |-> 0] ]

\* A tree whose names leave the local directory or share a local name: a
\* directory named "..", one whose name is blank, two videos that differ in
\* the extension only.
TreeC ==
    [ root |-> 0,
      items |-> [i \in {10, 11, 12, 13, 14} |->
          CASE i = 10 -> Item(10, <<".", ".">>, 1, 0)
            [] i = 11 -> Item(11, <<"e", ".", "s", "r", "t">>, 0, 1)
            [] i = 12 -> Item(12, <<"E", "p", ".", "m", "k", "v">>, 0, 1)
            [] i = 13 -> Item(13, <<"E", "p", ".", "m", "p", "4">>, 0, 1)
            [] i = 14 -> Item(14, <<" ">>, 1, 0)],
      children |-> [d \in {0, 10, 14} |->
          CASE d = 0 -> <<10, 14, 12, 13>>
            [] d = 10 -> <<11>>
            [] d = 14 -> <<>>],
      parent |-> [i \in {10, 11, 12, 13, 14} |-> IF i = 11 THEN 10 ELSE 0] ]

\* A stem that with ".strm" is NAME_CAP characters long.
LongStem == [k \in 1..(NAME_CAP - Len(STRM_EXT)) |-> "x"]

\* A tree with a subtitle whose name is cut by sanitize_filename, and a video.
TreeD ==
    [ root |-> 0,
      items |-> [i \in {15, 16} |->
          CASE i = 15 -> Item(15, LongStem \o STRM_EXT \o <<".", "s", "r", "t">>, 0, 2)
            [] i = 16 -> Item(16, LongStem \o <<".", "m", "k", "v">>, 0, 1)],
      children |-> [d \in {0} |-> <<15, 16>>],
      parent |-> [i \in {15, 16} |-> 0] ]

Trees == [A |-> TreeA, B |-> TreeB, C |-> TreeC, D |-> TreeD]

\* os.getenv(name) is truthy
EnvSet(e, name) == e[name] # ""

\* Mutant: the suffix test is case-sensitive.
IsVideoName_CaseSensitive(name) == EndsWithAny(name, VIDEO_EXTS)

IsVideoName(name) == EndsWithAny(Lower(name), VIDEO_EXTS)
IsSubtitleName(name) == EndsWithAny(Lower(name), SUBTITLE_EXTS)

\* What the program derives from an item alone, computed once per item:
\* the two suffix tests, f"{sanitize_filename(base_name)}.strm", the sanitized
\* name, and the bytes the remote holds for it (Size bytes, distinct per item).
ItemFacts(item) ==
    [ video |-> IsVideoName(item.FileName),
      subtitle |-> IsSubtitleName(item.FileName),
      strm_filename |-> sanitize_filename(SplitExtBase(item.FileName)) \o STRM_EXT,
      clean_name |-> sanitize_filename(item.FileName),
      bytes |-> [k \in 1..item.Size |-> ToString(item.FileId) \o "#" \o ToString(k)] ]

Facts ==
    [i \in UNION {DOMAIN Trees[n].items : n \in DOMAIN Trees} |->
        ItemFacts(LET n == CHOOSE m \in DOMAIN Trees : i \in DOMAIN Trees[m].items
                  IN  Trees[n].items[i])]

RemoteBytes(item) == Facts[item.FileId].bytes

\* The local directory generate_strm passes down for a remote directory.
RECURSIVE LocalDirOf(_, _)
LocalDirOf(t, d) ==
    IF d = t.root THEN LOCAL_PATH
    ELSE Join(LocalDirOf(t, t.parent[d]), Facts[d].clean_name)

\* ---------------------------------------------------------- classification

\* Which branch of process_item an item takes.
Classify(e, item) ==
    IF ~EnvSet(e, "SYNC_SUBTITLE_ONLY") /\ Facts[item.FileId].video THEN "video"
    ELSE IF Facts[item.FileId].subtitle THEN "subtitle"
    ELSE "ignored"

\* strm_path of a video item
StrmPath(local_path, item) ==
    Join(local_path, Facts[item.FileId].strm_filename)

\* sub_path of a subtitle item
SubPath(local_path, item) ==
    Join(local_path, Facts[item.FileId].clean_name)

\* ---------------------------------------------------------------- metadata

\* The answers of client.fs_info the model explores: resp["data"]["infoList"][0].
MetaResponses ==
    << [Etag |-> "e1", S3KeyFlag |-> "k1", Size |-> 9],
       [etag |-> "e2", s3keyflag |-> "", size |-> 9],
       [S3KeyFlag |-> "k1", Size |-> 9],
       [Etag |-> "e1", Size |-> 9],
       [Etag |-> "e1", S3KeyFlag |-> "k1"] >>

\* dict.get(key, default)
DictGet(data, key, default) == IF key \in DOMAIN data THEN data[key] ELSE default

LowerKey(field) ==
    CASE field = "Etag" -> "etag"
      [] field = "S3KeyFlag" -> "s3keyflag"
      [] field = "Size" -> "size"

\* Mutant: Size is not required.
required_fields_NoSize == <<"Etag", "S3KeyFlag">>

required_fields == <<"Etag", "S3KeyFlag", "Size">>

\* The loop over required_fields finds a field missing.
MissingField(data) ==
    \E i \in 1..Len(required_fields) :
        /\ LowerKey(required_fields[i]) \notin DOMAIN data
        /\ required_fields[i] \notin DOMAIN data

\* The line written to the pointer file, as the tuple of its pieces.
PointerUrl(item, data) ==
    LET etag == IF DictGet(data, "Etag", "") # "" THEN data["Etag"]
                ELSE DictGet(data, "etag", "")
        s3_key_flag == IF DictGet(data, "S3KeyFlag", "") # "" THEN data["S3KeyFlag"]
                       ELSE DictGet(data, "s3keyflag", "")
        size == IF DictGet(data, "Size", 0) # 0 THEN data["Size"] ELSE item.Size
        url == <<DIRECT_LINK_SERVICE_URL, "/">> \o item.FileName
                  \o <<"|", ToString(size), "|", etag>>
    IN  IF s3_key_flag # "" THEN url \o <<"?s3keyflag=", s3_key_flag>> ELSE url

\* ----------------------------------------------------------------- bounds

\* Largest number of body bytes a response delivers before it breaks off.
MaxCut == 2

\* ------------------------------------------------------------------ state

VARIABLES
    tree,       \* which remote tree the client serves: a name of Trees
    remoteMeta, \* index in MetaResponses of what fs_info answers for a video
    env,        \* the process environment: DEBUG, SYNC_SUBTITLE_ONLY
    disk,       \* condition of the local disk: "ok", "readonly", "full"
    fs,         \* the local filesystem
    run,        \* number of the current run of the program
    status,     \* "running", "done" (returned) or "failed" (sys.exit(1))
    stack,      \* the generate_strm frames, innermost last
    pc,         \* where the innermost frame stands
    cur,        \* the non-directory item being processed, or processed last
    order,      \* ids of the items whose handling has started, this run
    results,    \* what each of them came to: "dir", "true", "false", "none"
    pace,       \* the pauses of generate_strm, this run, each "dir" or "req"
    clean,      \* no remote call of this run or an earlier one failed
    raised,     \* what raised the exception generate_strm re-raises, or "none"
    snap,       \* the filesystem as the previous run left it
    san         \* a name given to sanitize_filename and what came of it

vars == <<tree, remoteMeta, env, disk, fs, run, status, stack, pc,
          cur, order, results, pace, clean, raised, snap, san>>

T == Trees[tree]

Top == stack[Len(stack)]

\* The item the loop of the innermost frame stands at (a frame holds the ids
\* of the items listed).
AtItem == Top.idx <= Len(Top.items)
CurItem == T.items[Top.items[Top.idx]]

Frame(parent_id, local_path) ==
    [parent_id |-> parent_id, local_path |-> local_path, items |-> <<>>, idx |-> 1,
     listCalls |-> 0]

\* What is kept of the item in hand: its id, the branch of process_item taken
\* (kind), its local path and whether something existed there when process_item
\* began, the value process_item returned ("none" until it returns), and of
\* the latest execution of the branch's body (for a subtitle: of the latest
\* attempt of download_file) the calls of fs_info, download_info and GET, the
\* files opened for writing, the Range offset sent (-1: no Range header) and
\* how the GET was answered; the attempts of download_file made so far and
\* the delays tenacity slept between them.
NoItem ==
    [id |-> -1, kind |-> "none", path |-> <<>>, existed |-> FALSE, result |-> "none",
     metaCalls |-> 0, infoCalls |-> 0, gets |-> 0, opens |-> 0, tries |-> 0,
     range |-> -1, got |-> "none", delays |-> <<>>]

\* No name is being sanitized.
NoName == [stage |-> "none", input |-> <<>>, once |-> <<>>, twice |-> <<>>]

\* ------------------------------------------------ local state before a run

\* What an earlier, possibly interrupted, run may have left at an item's path.
PriorBytes(item, prior) ==
    CASE prior = "stale" -> <<"old">>
      [] prior = "empty" -> <<>>
      [] prior = "partial" -> SubSeq(RemoteBytes(item), 1, 1)
      [] prior = "full" -> RemoteBytes(item)
      [] prior = "long" -> RemoteBytes(item) \o <<"x">>

TargetOf(t, i) ==
    LET item == t.items[i]
        dir == LocalDirOf(t, t.parent[i])
    IN  IF Facts[i].video THEN Resolve(StrmPath(dir, item))
        ELSE Resolve(SubPath(dir, item))

PriorFs(t, priorV, priorS) ==
    LET vids == {i \in DOMAIN t.items : t.items[i].Type = 0
                    /\ Facts[i].video /\ priorV # "absent"}
        subs == {i \in DOMAIN t.items : t.items[i].Type = 0
                    /\ ~Facts[i].video /\ Facts[i].subtitle /\ priorS # "absent"}
        files == {TargetOf(t, i) : i \in vids \cup subs}
        dirs == UNION {Prefixes(DirName(q)) : q \in files} \cup Prefixes(LOCAL_PATH)
    IN  [q \in files \cup dirs |->
            IF q \in files
            THEN LET i == CHOOSE j \in vids \cup subs : TargetOf(t, j) = q
                 IN  FileEntry(PriorBytes(t.items[i],
                                          IF i \in vids THEN priorV ELSE priorS))
            ELSE DirEntry]

Init ==
    /\ tree \in DOMAIN Trees
    /\ remoteMeta \in 1..Len(MetaResponses)
    /\ env \in [{"DEBUG", "SYNC_SUBTITLE_ONLY"} -> {"", "1"}]
    /\ disk \in {"ok", "readonly", "full"}
    /\ \E priorV \in {"absent", "stale"},
          priorS \in {"absent", "empty", "partial", "full", "long"} :
            fs = PriorFs(T, priorV, priorS)
    /\ run = 1
    /\ status = "running"
    /\ stack = <<Frame(T.root, LOCAL_PATH)>>
    /\ pc = "list"
    /\ cur = NoItem
    /\ order = <<>>
    /\ results = <<>>
    /\ pace = <<>>
    /\ clean = TRUE
    /\ raised = "none"
    /\ snap = fs
    /\ san = NoName

\* ------------------------------------------------------------ generate_strm

\* Mutant: the loop skips an item.
Advance_Skip(st) == [st EXCEPT ![Len(st)].idx = @ + 2]

\* The loop of the innermost frame moves on to the next item.
Advance(st) == [st EXCEPT ![Len(st)].idx = @ + 1]

\* Mutant: a failing listing is retried up to MAX_RETRIES calls.
ListDir_Retrying ==
    /\ pc = "list"
    /\ \E ok \in BOOLEAN :
        IF ok
        THEN /\ stack' = [stack EXCEPT ![Len(stack)].items =
                                    T.children[Top.parent_id],
                                 ![Len(stack)].listCalls = @ + 1]
             /\ pace' = Append(pace, "dir")
             /\ pc' = "loop"
             /\ UNCHANGED <<clean, raised>>
        ELSE /\ stack' = [stack EXCEPT ![Len(stack)].listCalls = @ + 1]
             /\ IF Top.listCalls + 1 < MAX_RETRIES
                THEN pc' = "list" /\ raised' = raised
                ELSE pc' = "raise" /\ raised' = "list"
             /\ clean' = FALSE
             /\ pace' = pace
    /\ UNCHANGED <<san, tree, remoteMeta, env, disk, fs, run, status, cur,
                   order, results, snap>>

\* items = list(iterdir(...)); time.sleep(DIR_DELAY). A failing listing raises.
ListDir ==
    /\ pc = "list"
    /\ \E ok \in BOOLEAN :
        IF ok
        THEN /\ stack' = [stack EXCEPT ![Len(stack)].items =
                                    T.children[Top.parent_id],
                                 ![Len(stack)].listCalls = @ + 1]
             /\ pace' = Append(pace, "dir")
             /\ pc' = "loop"
             /\ UNCHANGED <<clean, raised>>
        ELSE /\ stack' = [stack EXCEPT ![Len(stack)].listCalls = @ + 1]
             /\ pc' = "raise"
             /\ raised' = "list"
             /\ clean' = FALSE
             /\ pace' = pace
    /\ UNCHANGED <<san, tree, remoteMeta, env, disk, fs, run, status, cur,
                   order, results, snap>>

\* A directory item: sanitize, makedirs, and the recursive call begins.
EnterDir ==
    /\ pc = "loop" /\ AtItem /\ CurItem.Type = 1
    /\ LET dir_name == Facts[CurItem.FileId].clean_name
           new_local_path == Join(Top.local_path, dir_name)
       IN  /\ order' = Append(order, CurItem.FileId)
           /\ results' = Append(results, "dir")
           /\ IF MakeDirsOk(fs, disk, new_local_path)
              THEN /\ fs' = MakeDirs(fs, new_local_path)
                   /\ stack' = Append(stack, Frame(CurItem.FileId, new_local_path))
                   /\ pc' = "list"
                   /\ raised' = raised
              ELSE /\ pc' = "raise"
                   /\ raised' = "makedirs"
                   /\ UNCHANGED <<fs, stack>>
    /\ UNCHANGED <<san, tree, remoteMeta, env, disk, run, status, cur, pace,
                   clean, snap>>

\* The loop of a frame is over: the call returns. The caller pauses
\* REQUEST_DELAY and moves on; the outermost call returns to __main__.
ReturnDir ==
    /\ pc = "loop" /\ ~AtItem
    /\ IF Len(stack) > 1
       THEN /\ stack' = Advance(SubSeq(stack, 1, Len(stack) - 1))
            /\ pace' = Append(pace, "req")
            /\ UNCHANGED <<pc, status>>
       ELSE /\ stack' = <<>>
            /\ pc' = "exit"
            /\ status' = "done"
            /\ pace' = pace
    /\ UNCHANGED <<san, raised, tree, remoteMeta, env, disk, fs, run, cur, order,
                   results, clean, snap>>

\* Mutant: the caller swallows the exception of a recursive visit and goes on
\* with the next sibling.
Reraise_Swallow ==
    /\ pc = "raise"
    /\ IF Len(stack) > 1
       THEN /\ stack' = Advance(SubSeq(stack, 1, Len(stack) - 1))
            /\ pc' = "loop"
            /\ raised' = "none"
            /\ status' = status
       ELSE /\ stack' = <<>>
            /\ pc' = "exit"
            /\ status' = "failed"
            /\ raised' = raised
    /\ UNCHANGED <<san, tree, remoteMeta, env, disk, fs, run, cur, order,
                   results, pace, clean, snap>>

\* except Exception: logger.critical(...); raise. One frame is left per step;
\* __main__ catches the exception of the outermost call and exits with 1.
Reraise ==
    /\ pc = "raise"
    /\ stack' = SubSeq(stack, 1, Len(stack) - 1)
    /\ IF Len(stack) > 1
       THEN UNCHANGED <<pc, status>>
       ELSE pc' = "exit" /\ status' = "failed"
    /\ UNCHANGED <<san, raised, tree, remoteMeta, env, disk, fs, run, cur, order,
                   results, pace, clean, snap>>

\* ------------------------------------------------------------- process_item

\* Mutant: a failed item raises into generate_strm.
AfterItem_Raising(result) ==
    /\ results' = Append(results, result)
    /\ pace' = IF result = "true" THEN Append(pace, "req") ELSE pace
    /\ IF result = "false"
       THEN pc' = "raise" /\ stack' = stack
       ELSE pc' = "loop" /\ stack' = [stack EXCEPT ![Len(stack)].idx = @ + 1]

\* Mutant: the pause follows every item, whatever process_item returned.
AfterItem_PauseAlways(result) ==
    /\ stack' = Advance(stack)
    /\ results' = Append(results, result)
    /\ pace' = Append(pace, "req")
    /\ pc' = "loop"

\* How generate_strm goes on after process_item returned: a pause of
\* REQUEST_DELAY when the result is truthy, then the next item.
AfterItem(result) ==
    /\ stack' = Advance(stack)
    /\ results' = Append(results, result)
    /\ pace' = IF result = "true" THEN Append(pace, "req") ELSE pace
    /\ pc' = "loop"

\* The video branch of process_item with fs_info answering `meta` (0: the call
\* or check_response raises): the filesystem left, the value returned, the
\* calls made.
\* Mutant: the existence check is lost, every pointer file is resolved again.
NeedsResolve_Always(f, e, strm_path) == TRUE

\* if not os.path.exists(strm_path) or os.getenv("DEBUG") == "1"
NeedsResolve(f, e, strm_path) == ~Exists(f, strm_path) \/ e["DEBUG"] = "1"

process_video(f, d, e, item, local_path, meta) ==
    LET strm_path == StrmPath(local_path, item)
        data == MetaResponses[meta]
        url == PointerUrl(item, data)
    IN  IF ~NeedsResolve(f, e, strm_path)
        THEN [fs |-> f, result |-> "true", metaCalls |-> 0, opens |-> 0]
        ELSE IF meta = 0 \/ MissingField(data)
        THEN [fs |-> f, result |-> "false", metaCalls |-> 1, opens |-> 0]
        ELSE IF ~OpenOk(f, d, strm_path)
        THEN [fs |-> f, result |-> "false", metaCalls |-> 1, opens |-> 0]
        ELSE [fs |-> Put(f, Resolve(strm_path), FileEntry(Stored(d, url))),
              result |-> IF WriteOk(d, url) THEN "true" ELSE "false",
              metaCalls |-> 1, opens |-> 1]

\* How fs_info answered, when it was called.
MetaGot(metaCalls, meta) ==
    IF metaCalls = 0 THEN "none" ELSE IF meta = 0 THEN "error" ELSE "full"

ProcessVideo ==
    /\ pc = "loop" /\ AtItem /\ CurItem.Type = 0
    /\ Classify(env, CurItem) = "video"
    /\ \E meta \in {0, remoteMeta} :
        LET r == process_video(fs, disk, env, CurItem, Top.local_path, meta)
            strm_path == StrmPath(Top.local_path, CurItem)
        IN  /\ fs' = r.fs
            /\ cur' = [NoItem EXCEPT !.id = CurItem.FileId, !.kind = "video",
                          !.path = strm_path, !.existed = Exists(fs, strm_path),
                          !.result = r.result, !.metaCalls = r.metaCalls,
                          !.opens = r.opens, !.got = MetaGot(r.metaCalls, meta)]
            /\ clean' = (clean /\ (r.metaCalls = 0 \/ meta # 0))
            /\ order' = Append(order, CurItem.FileId)
            /\ AfterItem(r.result)
    /\ UNCHANGED <<san, raised, tree, remoteMeta, env, disk, run, status, snap>>

\* Neither branch of process_item applies: it returns None.
ProcessIgnored ==
    /\ pc = "loop" /\ AtItem /\ CurItem.Type = 0
    /\ Classify(env, CurItem) = "ignored"
    /\ cur' = [NoItem EXCEPT !.id = CurItem.FileId, !.kind = "ignored"]
    /\ order' = Append(order, CurItem.FileId)
    /\ AfterItem("none")
    /\ UNCHANGED <<san, raised, tree, remoteMeta, env, disk, fs, run, status, clean,
                   snap>>

\* The subtitle branch: download_file is called (its first attempt is next).
ProcessSubtitle ==
    /\ pc = "loop" /\ AtItem /\ CurItem.Type = 0
    /\ Classify(env, CurItem) = "subtitle"
    /\ LET sub_path == SubPath(Top.local_path, CurItem)
       IN  cur' = [NoItem EXCEPT !.id = CurItem.FileId, !.kind = "subtitle",
                      !.path = sub_path, !.existed = Exists(fs, sub_path)]
    /\ order' = Append(order, CurItem.FileId)
    /\ pc' = "download"
    /\ UNCHANGED <<san, raised, tree, remoteMeta, env, disk, fs, run, status, stack,
                   results, pace, clean, snap>>

\* ------------------------------------------------------------ download_file

\* How the remote answers a GET: "error" (no connection, or a status that
\* raise_for_status rejects), "full" (the bytes asked for), "cut" (the stream
\* raises after n bytes), "short" (the body ends after n bytes without an
\* error), "whole" (the Range header is ignored and the whole file is sent).
GetKinds == {"error", "full", "cut", "short", "whole"}

\* The bytes a GET asks for: the file from offset `start` on.
Requested(item, start) ==
    IF start >= item.Size THEN <<>>
    ELSE SubSeq(RemoteBytes(item), start + 1, item.Size)

\* The status check passes: a range that starts at or past the end of the
\* file is answered 416 by a remote that honours ranges.
StatusOk(item, hasRange, start, get) ==
    /\ get # "error"
    /\ (get = "whole" \/ ~hasRange \/ start < item.Size)

\* The body iter_bytes yields before it ends or raises.
Body(item, start, get, n) ==
    CASE get = "whole" -> RemoteBytes(item)
      [] get = "full" -> Requested(item, start)
      [] OTHER -> SubSeq(Requested(item, start), 1, n)

\* Mutant: no completeness check and no Range header, the body is appended.
RequestPlan_AppendWhole(f, item, local_path) ==
    [ complete |-> FALSE,
      range |-> -1,
      mode |-> IF Exists(f, local_path) THEN "ab" ELSE "wb" ]

\* Mutant: the Range header always starts at 0.
RequestPlan_FromZero(f, item, local_path) ==
    LET exists == Exists(f, local_path)
        local_size == IF exists THEN GetSize(f, local_path) ELSE 0
    IN  [ complete |-> exists /\ local_size = item["Size"],
          range |-> IF exists THEN 0 ELSE -1,
          mode |-> IF exists THEN "ab" ELSE "wb" ]

\* What download_file decides from the local file: whether it is already
\* complete, the offset of the Range header (-1: no header), the mode the file
\* is opened in.
RequestPlan(f, item, local_path) ==
    LET exists == Exists(f, local_path)
        local_size == IF exists THEN GetSize(f, local_path) ELSE 0
    IN  [ complete |-> exists /\ local_size = item["Size"],
          range |-> IF exists THEN local_size ELSE -1,
          mode |-> IF exists THEN "ab" ELSE "wb" ]

\* One execution of the body of download_file, with download_info answering
\* `info` and the GET answered as `get`, `n`.
download_file(f, d, item, local_path, info, get, n) ==
    LET failed == [fs |-> f, ok |-> FALSE, gets |-> 0, range |-> -1, opens |-> 0,
                   got |-> "none", remoteOk |-> info = "ok"]
        f1 == MakeDirs(f, DirName(local_path))
        plan == RequestPlan(f1, item, local_path)
        hasRange == plan.range >= 0
        start == IF hasRange THEN plan.range ELSE 0
        body == Body(item, start, get, n)
        base == IF plan.mode = "ab" /\ Exists(f1, local_path)
                THEN f1[Resolve(local_path)].data ELSE <<>>
        asked == [failed EXCEPT !.fs = f1, !.gets = 1, !.got = get,
                     !.range = plan.range,
                     !.remoteOk = (get = "full" /\ StatusOk(item, hasRange, start, get))]
    IN  IF info # "ok" THEN failed
        ELSE IF ~MakeDirsOk(f, d, DirName(local_path)) THEN failed
        ELSE IF plan.complete
        THEN [failed EXCEPT !.fs = f1, !.ok = TRUE]
        ELSE IF ~StatusOk(item, hasRange, start, get) THEN asked
        ELSE IF ~OpenOk(f1, d, local_path) THEN asked
        ELSE [asked EXCEPT
                 !.fs = Put(f1, Resolve(local_path), FileEntry(base \o Stored(d, body))),
                 !.opens = 1,
                 !.ok = (WriteOk(d, body) /\ get # "cut")]

\* The answers to a GET that differ: a body that breaks off is shorter than
\* the one asked for, and ignoring the Range header shows only when one was sent.
GetOutcome(f, item, local_path, get, n) ==
    LET plan == RequestPlan(f, item, local_path)
    IN  CASE get \in {"cut", "short"} ->
                n < Len(Requested(item, IF plan.range >= 0 THEN plan.range ELSE 0))
          [] get = "whole" -> n = 0 /\ plan.range >= 0
          [] OTHER -> n = 0

\* Mutant: one attempt too many.
StopRetrying_OffByOne(attempt_number) == attempt_number > MAX_RETRIES

\* stop_after_attempt(MAX_RETRIES)
StopRetrying(attempt_number) == attempt_number >= MAX_RETRIES

DownloadAttempt ==
    /\ pc = "download"
    /\ \E info \in {"ok", "error"}, get \in GetKinds, n \in 0..MaxCut :
        /\ GetOutcome(fs, CurItem, cur.path, get, n)
        /\ LET r == download_file(fs, disk, CurItem, cur.path, info, get, n)
               c == [cur EXCEPT !.tries = @ + 1, !.infoCalls = 1,
                        !.gets = r.gets, !.opens = r.opens,
                        !.range = r.range, !.got = r.got]
           IN  /\ fs' = r.fs
               /\ clean' = (clean /\ r.remoteOk)
               /\ IF r.ok
                  THEN /\ cur' = [c EXCEPT !.result = "true"]
                       /\ AfterItem("true")
                  ELSE IF StopRetrying(c.tries)
                  THEN /\ cur' = [c EXCEPT !.result = "false"]
                       /\ AfterItem("false")
                  ELSE /\ cur' = c
                       /\ pc' = "sleep"
                       /\ UNCHANGED <<stack, results, pace>>
    /\ UNCHANGED <<san, raised, tree, remoteMeta, env, disk, run, status, order, snap>>

RECURSIVE Pow2(_)
Pow2(k) == IF k <= 0 THEN 1 ELSE 2 * Pow2(k - 1)

Min(a, b) == IF a < b THEN a ELSE b
Max(a, b) == IF a > b THEN a ELSE b

\* wait_exponential(multiplier=1, min=2, max=10) of tenacity:
\*   exp = exp_base ** (attempt_number - 1); result = multiplier * exp
\*   return max(max(0, min), min(result, max))
wait_exponential(attempt_number) ==
    LET exp == Pow2(attempt_number - 1)
        result == WAIT_MULTIPLIER * exp
    IN  Max(Max(0, WAIT_MIN), Min(result, WAIT_MAX))

\* before_sleep logs the warning, tenacity sleeps, and the next attempt begins.
RetrySleep ==
    /\ pc = "sleep"
    /\ cur' = [cur EXCEPT !.delays = Append(@, wait_exponential(cur.tries))]
    /\ pc' = "download"
    /\ UNCHANGED <<san, raised, tree, remoteMeta, env, disk, fs, run, status, stack,
                   order, results, pace, clean, snap>>

\* ------------------------------------------------------------------ __main__

\* The program is started again on the local tree it left, after a run in
\* which no remote call failed (what a failed run leaves is among the local
\* states a first run starts from).
Rerun ==
    /\ pc = "exit"
    /\ clean
    /\ run < MaxRuns
    /\ run' = run + 1
    /\ snap' = fs
    /\ status' = "running"
    /\ stack' = <<Frame(T.root, LOCAL_PATH)>>
    /\ pc' = "list"
    /\ cur' = NoItem
    /\ order' = <<>>
    /\ results' = <<>>
    /\ pace' = <<>>
    /\ raised' = "none"
    /\ UNCHANGED <<san, tree, remoteMeta, env, disk, fs, clean>>

Next ==
    \/ ListDir
    \/ EnterDir
    \/ ReturnDir
    \/ Reraise
    \/ ProcessVideo
    \/ ProcessIgnored
    \/ ProcessSubtitle
    \/ DownloadAttempt
    \/ RetrySleep
    \/ Rerun

Spec == Init /\ [][Next]_vars

\* ------------------------------------------- sanitize_filename on its own

\* Longest run of arbitrary characters in a name given to sanitize_filename.
MaxTail == 3

\* The characters the names are made of: a blank, a tab, two reserved
\* characters, a letter.
NameChars == {" ", "\t", "/", "?", "b"}

\* The names: an optional leading blank, then nothing or a run of "a" that
\* ends within MaxTail of NAME_CAP, then up to MaxTail arbitrary characters.
NameInputs ==
    {lead \o [k \in 1..pad |-> "a"] \o tail :
        lead \in {<<>>, <<" ">>},
        pad \in {0} \cup ((NAME_CAP - MaxTail)..NAME_CAP),
        tail \in UNION {[1..n -> NameChars] : n \in 0..MaxTail}}

\* The program is not running; a name is about to be sanitized.
SanInit ==
    /\ san \in [stage : {"input"}, input : NameInputs, once : {<<>>}, twice : {<<>>}]
    /\ tree = "A"
    /\ remoteMeta = 1
    /\ env = [n \in {"DEBUG", "SYNC_SUBTITLE_ONLY"} |-> ""]
    /\ disk = "ok"
    /\ fs = PriorFs(TreeA, "absent", "absent")
    /\ run = 1
    /\ status = "done"
    /\ stack = <<>>
    /\ pc = "exit"
    /\ cur = NoItem
    /\ order = <<>>
    /\ results = <<>>
    /\ pace = <<>>
    /\ clean = TRUE
    /\ raised = "none"
    /\ snap = fs

\* sanitize_filename(name)
SanitizeOnce ==
    /\ san.stage = "input"
    /\ san' = [san EXCEPT !.stage = "once", !.once = sanitize_filename(san.input)]
    /\ UNCHANGED <<tree, remoteMeta, env, disk, fs, run, status, stack, pc,
                   cur, order, results, pace, clean, raised, snap>>

\* sanitize_filename(sanitize_filename(name))
SanitizeTwice ==
    /\ san.stage = "once"
    /\ san' = [san EXCEPT !.stage = "twice", !.twice = sanitize_filename(san.once)]
    /\ UNCHANGED <<tree, remoteMeta, env, disk, fs, run, status, stack, pc,
                   cur, order, results, pace, clean, raised, snap>>

SanNext == SanitizeOnce \/ SanitizeTwice

SanSpec == SanInit /\ [][SanNext]_vars

\* ==================================================================== claims

\* The local file of the item in hand, and the item itself.
CurKey == Resolve(cur.path)
CurFile == fs[CurKey]
CurRemote == T.items[cur.id]

IsPrefix(a, b) == Len(a) <= Len(b) /\ SubSeq(b, 1, Len(a)) = a

\* A step taken from the head of the loop at a non-directory item: the step
\* is the call of process_item for it.
AtFileItem == pc = "loop" /\ AtItem /\ CurItem.Type = 0

\* -------------------------------------------------------------------- C1
\* C1: with DEBUG unset, when a run in which every remote call succeeded is
\* followed by a second such run on the same remote tree (and the same local
\* disk), the local filesystem at the end of the second run is the one the
\* first run left: the same paths, each with the same bytes.
C1_RerunLeavesFilesystem ==
    (run > 1 /\ pc = "exit" /\ clean /\ env["DEBUG"] # "1") => fs = snap

\* A second clean run has ended on a tree that holds a pointer file written
\* by the program and a complete subtitle.
C1_Witness ==
    /\ run = 2 /\ pc = "exit" /\ status = "done" /\ clean /\ env["DEBUG"] # "1"
    /\ \E q \in DOMAIN fs :
          /\ fs[q].kind = "file"
          /\ Len(fs[q].data) > 0
          /\ fs[q].data[1] = DIRECT_LINK_SERVICE_URL
    /\ \E i \in DOMAIN T.items :
          /\ Facts[i].subtitle
          /\ \E q \in DOMAIN fs : fs[q].kind = "file" /\ fs[q].data = Facts[i].bytes

\* -------------------------------------------------------------------- C2
\* C2 (as claimed): when an attempt of download_file finds the local file
\* complete (it exists with exactly Size bytes), the attempt makes no remote
\* call, neither download_info nor the GET, opens no file, and process_item
\* reports success.
C2_CompleteFileNoRemoteCall ==
    ( /\ cur.kind = "subtitle" /\ cur.tries >= 1 /\ cur.opens = 0
      /\ CurKey \in DOMAIN fs /\ CurFile.kind = "file"
      /\ Len(CurFile.data) = CurRemote.Size )
    => (cur.infoCalls = 0 /\ cur.gets = 0 /\ cur.result = "true")

\* -------------------------------------------------------------------- C3
\* C3: process_item on a video whose pointer file exists: with DEBUG unset it
\* calls fs_info not at all, leaves the filesystem as it is and returns True;
\* with DEBUG=1 it calls fs_info once, and when the answer holds every
\* required field and the disk takes the write, the file then holds the line
\* derived from that answer and True is returned (True is never returned over
\* other content).
C3_PointerSkipOrForce ==
    [][ ( /\ AtFileItem /\ Classify(env, CurItem) = "video"
          /\ Exists(fs, StrmPath(Top.local_path, CurItem)) )
        => LET key == Resolve(StrmPath(Top.local_path, CurItem))
               url == PointerUrl(CurItem, MetaResponses[remoteMeta])
           IN  IF env["DEBUG"] # "1"
               THEN cur'.metaCalls = 0 /\ fs' = fs /\ cur'.result = "true"
               ELSE /\ cur'.metaCalls = 1
                    /\ (cur'.result = "true" => fs'[key].data = url)
                    /\ ( ( /\ cur'.got = "full" /\ disk = "ok"
                           /\ ~MissingField(MetaResponses[remoteMeta]) )
                         => (cur'.result = "true" /\ fs'[key].data = url) )
      ]_vars

\* DEBUG=1: a pointer file that existed has been overwritten with the derived
\* line.
C3_Witness ==
    /\ env["DEBUG"] = "1"
    /\ cur.kind = "video" /\ cur.existed /\ cur.metaCalls = 1 /\ cur.opens = 1
    /\ cur.result = "true"
    /\ CurFile.data = PointerUrl(CurRemote, MetaResponses[remoteMeta])

StrictlyIncreasing(seq) == \A i, j \in 1..Len(seq) : i < j => seq[i] < seq[j]
NonDecreasing(seq) == \A i, j \in 1..Len(seq) : i < j => seq[i] <= seq[j]

\* C5 (as claimed): a download that fails on every attempt is tried exactly
\* MAX_RETRIES times before process_item returns False, and the delays slept
\* between the attempts are strictly increasing, start at 2 and stay within 10.
C5_RetryBoundStrict ==
    cur.kind = "subtitle" =>
        /\ cur.tries <= MAX_RETRIES
        /\ (cur.result = "false" => cur.tries = MAX_RETRIES)
        /\ StrictlyIncreasing(cur.delays)
        /\ (cur.delays # <<>> => cur.delays[1] = 2)
        /\ \A i \in 1..Len(cur.delays) : cur.delays[i] <= 10

\* C5 (amended): exactly MAX_RETRIES attempts, and the delays between them
\* never decrease (2 s, then 2 s), start at 2 and stay within 10.
C5_RetryBound ==
    cur.kind = "subtitle" =>
        /\ cur.tries <= MAX_RETRIES
        /\ (cur.result = "false" => cur.tries = MAX_RETRIES)
        /\ Len(cur.delays) = (IF pc = "download" \/ cur.tries = 0
                              THEN cur.tries ELSE cur.tries - 1)
        /\ NonDecreasing(cur.delays)
        /\ (cur.delays # <<>> => cur.delays[1] = 2)
        /\ \A i \in 1..Len(cur.delays) : cur.delays[i] <= 10

\* A download has failed MAX_RETRIES times and process_item returned False.
C5_Witness ==
    /\ cur.kind = "subtitle" /\ cur.result = "false"
    /\ cur.tries = MAX_RETRIES /\ Len(cur.delays) = MAX_RETRIES - 1

\* -------------------------------------------------------------------- C6
\* The ids of a listing and of everything below it, depth first, a directory
\* before its children and its children before its next sibling.
RECURSIVE PreOrderFrom(_, _)
PreOrderFrom(t, ids) ==
    IF ids = <<>> THEN <<>>
    ELSE <<Head(ids)>>
         \o (IF t.items[Head(ids)].Type = 1
             THEN PreOrderFrom(t, t.children[Head(ids)]) ELSE <<>>)
         \o PreOrderFrom(t, Tail(ids))

PreOrders == [n \in DOMAIN Trees |-> PreOrderFrom(Trees[n], Trees[n].children[Trees[n].root])]
PreOrderOfTree == PreOrders[tree]

\* C6: no failure of a non-directory item reaches generate_strm as an
\* exception (an exception is under way only after a listing or a makedirs
\* failed); process_item turns it into False, the loop goes on with the next
\* sibling, and a run that returns has handled every item of the tree, each
\* with a recorded outcome, whatever failed on the way.
C6_ItemFailuresIsolated ==
    /\ []( /\ (pc = "raise" \/ status = "failed")
                 => raised \in {"list", "makedirs"}
           /\ status = "done"
                 => (order = PreOrderOfTree /\ Len(results) = Len(order)) )
    /\ [][ (AtFileItem \/ pc = "download" \/ pc = "sleep") =>
             /\ pc' \in {"loop", "download", "sleep"}
             /\ raised' = "none"
             /\ Len(stack') = Len(stack)
             /\ (pc' = "loop" =>
                    /\ Top'.idx = Top.idx + 1
                    /\ results' = Append(results, cur'.result)
                    /\ Len(results') = Len(order'))
         ]_vars

\* A run has returned in which a video failed and the subtitle after it, a
\* download, failed too, and the item after that was still handled.
C6_Witness ==
    /\ status = "done" /\ tree = "A"
    /\ results = <<"dir", "false", "false", "none", "none">>

\* -------------------------------------------------------------------- C7
\* The answer of fs_info has one of the three fields under neither spelling.
AnswerLacksField ==
    \E pair \in {<<"Etag", "etag">>, <<"S3KeyFlag", "s3keyflag">>,
                  <<"Size", "size">>} :
        /\ pair[1] \notin DOMAIN MetaResponses[remoteMeta]
        /\ pair[2] \notin DOMAIN MetaResponses[remoteMeta]

\* C7: when fs_info answers for a video without one of Etag, S3KeyFlag, Size
\* (in either spelling), process_item has called fs_info once, returns False,
\* leaves the filesystem exactly as it was, and the loop stands at the next
\* sibling.
C7_MissingFieldSkipsItem ==
    [][ ( /\ AtFileItem /\ Classify(env, CurItem) = "video"
          /\ AnswerLacksField
          /\ cur'.got = "full" )
        => /\ cur'.metaCalls = 1
           /\ cur'.result = "false"
           /\ fs' = fs
           /\ pc' = "loop"
           /\ Len(stack') = Len(stack)
           /\ Top'.idx = Top.idx + 1
      ]_vars

\* DEBUG=1, a pointer file existed, the answer lacked a field and no remote
\* call raised: the video failed, the old file is still there, and the sibling
\* after it has been downloaded.
C7_Witness ==
    /\ tree = "A" /\ env["DEBUG"] = "1" /\ clean
    /\ AnswerLacksField
    /\ results = <<"dir", "false", "true">>
    /\ cur.id = 3 /\ cur.result = "true"
    /\ \E q \in DOMAIN fs : fs[q] = FileEntry(<<"old">>)

\* -------------------------------------------------------------------- C8
\* C8: the items are taken up one at a time in depth-first pre-order of the
\* listings: the ids whose handling has started are always a prefix of the
\* pre-order of the tree; every frame but the outermost is the visit of the
\* directory its caller's loop stands at (the caller waits for it); the
\* download in progress belongs to the one item taken up last.
C8_SequentialPreOrder ==
    /\ IsPrefix(order, PreOrderOfTree)
    /\ status = "done" => order = PreOrderOfTree
    /\ \A k \in 2..Len(stack) :
          /\ stack[k-1].idx <= Len(stack[k-1].items)
          /\ stack[k].parent_id = stack[k-1].items[stack[k-1].idx]
    /\ pc \in {"download", "sleep"} =>
          (cur.id = CurItem.FileId /\ order[Len(order)] = cur.id)

\* Tree A has been walked: the directory, its three children, then its sibling.
C8_Witness ==
    /\ tree = "A" /\ status = "done"
    /\ order = <<1, 2, 3, 4, 5>>

\* -------------------------------------------------------------------- C9
HasVideoExt(item) == EndsWithAny(Lower(item.FileName), VIDEO_EXTS)
HasSubtitleExt(item) == EndsWithAny(Lower(item.FileName), SUBTITLE_EXTS)

\* C9: process_item routes a non-directory item by its lowercased suffix. A
\* VIDEO_EXTS name, SYNC_SUBTITLE_ONLY unset, goes to the pointer branch only
\* (no download_info, no GET); a SUBTITLE_EXTS name goes to download_file only
\* (no fs_info); any other name, and a VIDEO_EXTS name when SYNC_SUBTITLE_ONLY
\* is set, makes no remote call and changes no file.
C9_RoutedBySuffix ==
    /\ [][ AtFileItem =>
            IF HasVideoExt(CurItem) /\ env["SYNC_SUBTITLE_ONLY"] = ""
            THEN cur'.kind = "video" /\ pc' = "loop"
                 /\ cur'.infoCalls = 0 /\ cur'.gets = 0
            ELSE IF HasSubtitleExt(CurItem)
            THEN cur'.kind = "subtitle" /\ pc' = "download" /\ fs' = fs
            ELSE /\ cur'.kind = "ignored" /\ pc' = "loop" /\ fs' = fs
                 /\ cur'.metaCalls = 0 /\ cur'.infoCalls = 0 /\ cur'.gets = 0
                 /\ cur'.opens = 0
         ]_vars
    /\ [][ (pc = "download" \/ pc = "sleep") =>
            (cur'.kind = "subtitle" /\ cur'.metaCalls = 0) ]_vars

\* SYNC_SUBTITLE_ONLY=1: the video of tree A was ignored and the subtitle
\* after it downloaded.
C9_Witness ==
    /\ tree = "A" /\ env["SYNC_SUBTITLE_ONLY"] = "1"
    /\ results = <<"dir", "none", "true">>
    /\ cur.id = 3 /\ cur.kind = "subtitle" /\ cur.gets = 1

\* ------------------------------------------------------------------- C10
\* The frame whose listing has just raised.
ListingRaised ==
    pc = "raise" /\ raised = "list" /\ Len(stack) > 0 /\ Top.items = <<>>

\* C10 (as claimed): a failing listing is called MAX_RETRIES times before the
\* failure surfaces.
C10_ListingRetried == ListingRaised => Top.listCalls = MAX_RETRIES

\* C10 (amended): a failing listing is not retried; the exception surfaces
\* after the one call of iterdir, without a pause.
C10_ListingNotRetried ==
    /\ []( /\ ListingRaised => Top.listCalls = 1
           /\ \A k \in 1..Len(stack) : stack[k].listCalls <= 1 )
    /\ [][ (pc = "list" /\ pc' # "loop") => (pc' = "raise" /\ pace' = pace) ]_vars

\* The listing of the subdirectory of tree A has raised.
C10_Witness == ListingRaised /\ Len(stack) = 2

\* ------------------------------------------------------------------- C11
\* C11 (as claimed): a pointer file process_item has opened for writing holds,
\* in every state after that, the complete URL line made from a metadata
\* answer that had every required field; it is never empty or cut short.
C11_PointerFileComplete ==
    (cur.kind = "video" /\ cur.opens = 1) =>
        /\ CurKey \in DOMAIN fs
        /\ ~AnswerLacksField
        /\ CurFile.data # <<>>
        /\ CurFile.data = PointerUrl(CurRemote, MetaResponses[remoteMeta])

\* ------------------------------------------------------------------- C12
\* The local paths of the subtitles of the tree.
SidecarKeys ==
    {TargetOf(T, i) : i \in {j \in DOMAIN T.items :
                                T.items[j].Type = 0 /\ HasSubtitleExt(T.items[j])}}

\* C12 (as claimed): no step removes a local file or directory or turns one
\* into the other, and no step shortens a subtitle's local file or changes the
\* bytes it already held: what it held stays a prefix of what it holds.
C12_NoLocalDataLost ==
    [][ \A q \in DOMAIN fs :
          /\ q \in DOMAIN fs'
          /\ fs'[q].kind = fs[q].kind
          /\ (q \in SidecarKeys /\ fs[q].kind = "file")
                => IsPrefix(fs[q].data, fs'[q].data)
      ]_vars

\* ------------------------------------------------------------------- C13
\* C13 (as claimed): for every name, sanitize_filename(name) holds no reserved
\* character, is at most NAME_CAP characters long, and is a fixed point of
\* sanitize_filename.
C13_SanitizeSafeFixedPoint ==
    san.stage = "twice" =>
        /\ \A k \in 1..Len(san.once) : san.once[k] \notin ReservedChars
        /\ Len(san.once) <= NAME_CAP
        /\ san.twice = san.once

\* ------------------------------------------------------------------- C14
\* The items of the tree the program gives a local counterpart: directories,
\* videos (unless SYNC_SUBTITLE_ONLY is set) and subtitles.
ProcessedIds ==
    {i \in DOMAIN T.items :
        T.items[i].Type = 1 \/ Classify(env, T.items[i]) # "ignored"}

\* The local directory, pointer file or copy of such an item.
LocalKeyOf(i) ==
    IF T.items[i].Type = 1 THEN Resolve(LocalDirOf(T, i)) ELSE TargetOf(T, i)

\* C14 (as claimed): when a pass has returned without a failed item, the
\* processed children of one remote directory have pairwise distinct local
\* paths, each of which exists as a directory (for a subdirectory) or a file.
C14_MirrorOneToOne ==
    (status = "done" /\ \A k \in 1..Len(results) : results[k] # "false") =>
        /\ \A i \in ProcessedIds : \A j \in ProcessedIds :
              (i # j /\ T.parent[i] = T.parent[j])
                  => LocalKeyOf(i) # LocalKeyOf(j)
        /\ \A i \in ProcessedIds :
              /\ LocalKeyOf(i) \in DOMAIN fs
              /\ fs[LocalKeyOf(i)].kind =
                    (IF T.items[i].Type = 1 THEN "dir" ELSE "file")

\* ------------------------------------------------------------------- C15
\* The number of entries of a sequence that equal x.
Count(seq, x) == Cardinality({k \in 1..Len(seq) : seq[k] = x})

\* process_item has just returned to the loop of generate_strm.
ItemReturned ==
    /\ pc \in {"loop", "download"} /\ pc' = "loop"
    /\ Len(stack') = Len(stack)
    /\ Len(results') = Len(results) + 1

\* C15: generate_strm pauses DIR_DELAY once after each listing that returned
\* (and not after one that raised), REQUEST_DELAY after each recursive visit
\* that returned and after each non-directory item for which process_item
\* reported success; after an item that failed it pauses not at all and goes
\* to the next sibling. It pauses nowhere else.
C15_PacingFollowsOutcome ==
    /\ [][ /\ (pc = "list" /\ pc' = "loop") => pace' = Append(pace, "dir")
           /\ (pc = "list" /\ pc' = "raise") => pace' = pace
           /\ (pc = "loop" /\ pc' = "loop" /\ Len(stack') = Len(stack) - 1)
                 => pace' = Append(pace, "req")
           /\ (ItemReturned /\ results'[Len(results')] = "true")
                 => pace' = Append(pace, "req")
           /\ (ItemReturned /\ results'[Len(results')] = "false")
                 => (pace' = pace /\ Top'.idx = Top.idx + 1)
           /\ (pace' # pace /\ run' = run) =>
                 \/ (pc = "list" /\ pc' = "loop")
                 \/ (pc = "loop" /\ Len(stack') = Len(stack) - 1)
                 \/ (ItemReturned /\ results'[Len(results')] = "true")
         ]_vars
    /\ [](status = "done" =>
            /\ Count(pace, "dir") = 1 + Count(results, "dir")
            /\ Count(pace, "req") = Count(results, "dir") + Count(results, "true"))

\* Tree A has been walked; the video failed, the subtitle was downloaded: a
\* pause after each of the two listings, one after the subtitle, one after
\* the visit of the subdirectory.
C15_Witness ==
    /\ tree = "A" /\ status = "done"
    /\ results = <<"dir", "false", "true", "none", "none">>
    /\ pace = <<"dir", "dir", "req", "req">>

\* ------------------------------------------------------------------- C16
\* C16: once a listing has failed, at whatever depth, the exception leaves one
\* generate_strm frame after the other up to __main__, which exits with
\* failure; from the failure on no item is taken up, no result recorded and
\* no file or directory changed.
C16_ListingFailureEndsRun ==
    /\ []( /\ raised = "list" => (pc \in {"raise", "exit"} /\ ~clean)
           /\ (raised = "list" /\ pc = "exit")
                 => (status = "failed" /\ stack = <<>>)
           /\ (raised = "list" /\ pc = "raise")
                 => (status = "running" /\ Len(stack) > 0) )
    /\ [][ raised = "list" =>
             /\ raised' = "list"
             /\ order' = order /\ results' = results
             /\ fs' = fs
             /\ run' = run
             /\ pc = "raise" => Len(stack') = Len(stack) - 1
         ]_vars

\* Tree B: the video's pointer file was written, then the listing of the
\* subdirectory failed; the run has ended in failure, the two items after the
\* subdirectory were never taken up and the pointer file is still there.
C16_Witness ==
    /\ tree = "B" /\ status = "failed" /\ raised = "list"
    /\ order = <<6, 9>> /\ results = <<"true", "dir">>
    /\ TargetOf(TreeB, 6) \in DOMAIN fs
    /\ TargetOf(TreeB, 6) \notin DOMAIN snap

\* ------------------------------------------------------------------- C17
\* C17 (as claimed): when download_file has reported success for a subtitle,
\* the local file is exactly Size bytes long, however the remote answered.
C17_SuccessMeansFullLength ==
    (cur.kind = "subtitle" /\ cur.result = "true" /\ cur.gets = 1) =>
        /\ CurKey \in DOMAIN fs
        /\ Len(CurFile.data) = CurRemote.Size

\* ------------------------------------------------------------------- C18
\* C18 (as claimed): whatever was at the subtitle's local path before, a pass
\* in which the remote answers and honours the Range header (the last attempt
\* of download_file got its GET answered that way, on a disk that takes the
\* writes) ends with the download reporting success and the local file
\* exactly Size bytes long.
C18_SidecarConverges ==
    (cur.kind = "subtitle" /\ cur.result # "none" /\ cur.got = "full"
        /\ disk = "ok") =>
        /\ cur.result = "true"
        /\ CurKey \in DOMAIN fs
        /\ Len(CurFile.data) = CurRemote.Size

\* ------------------------------------------------------------------- C19
\* A resolved path lies strictly inside the local root.
InsideRoot(q) == Len(q) > Len(LOCAL_PATH) /\ IsPrefix(LOCAL_PATH, q)

\* C19 (as claimed): every file or directory the run has created or changed
\* lies strictly inside the local root, and so does the local directory of
\* every visit below the top one, which differs from its caller's.
C19_StaysInsideRoot ==
    /\ \A q \in DOMAIN fs :
          (q \notin DOMAIN snap \/ fs[q] # snap[q]) => InsideRoot(q)
    /\ \A k \in 2..Len(stack) :
          /\ InsideRoot(Resolve(stack[k].local_path))
          /\ Resolve(stack[k].local_path) # Resolve(stack[k-1].local_path)

\* ------------------------------------------------------------------- C20
\* C20 (as claimed): a run that ends in failure has stopped at a listing
\* failure.
C20_StopsOnlyAtListingFailure == status = "failed" => raised = "list"

\* A bound on the steps a run has left: for every item not yet taken up the
\* steps one item can take (a subtitle: the call, MAX_RETRIES attempts and the
\* pauses between them), two for every open frame, and the steps left in the
\* listing or the download in hand.
Rank ==
    (Len(PreOrderOfTree) - Len(order)) * (2 * MAX_RETRIES + 1)
    + 2 * Len(stack)
    + (CASE pc = "list" -> 1
         [] pc = "download" -> 2 * (MAX_RETRIES - cur.tries) - 1
         [] pc = "sleep" -> 2 * (MAX_RETRIES - cur.tries)
         [] OTHER -> 0)

\* C20 (amended): every run ends: a run that has not ended can take a step
\* (during a download: an attempt is left and the remote has an answer, which
\* is all DownloadAttempt asks for), and every step of a run lowers Rank, a
\* natural number. It has then either
\* completed, every item of the tree dispatched once in pre-order and every
\* directory listed once, or stopped at the first failure of a listing or of
\* the creation of a local directory. No directory is listed twice, and a
\* directory without children returns right after its pause: no file, no
\* item and no remote call in between.
C20_RunTerminates ==
    /\ [][ run' = run => Rank' < Rank ]_vars
    /\ []( /\ Rank \in Nat
           /\ (pc # "exit" /\ pc # "download") => ENABLED Next
           /\ pc = "download" =>
                /\ cur.tries < MAX_RETRIES
                /\ \E get \in GetKinds, n \in 0..MaxCut :
                      GetOutcome(fs, CurItem, cur.path, get, n)
           /\ pc = "exit" <=> status \in {"done", "failed"}
           /\ status = "done" =>
                /\ order = PreOrderOfTree
                /\ Count(pace, "dir") = 1 + Count(results, "dir")
           /\ status = "failed" =>
                /\ raised \in {"list", "makedirs"}
                /\ IsPrefix(order, PreOrderOfTree)
           /\ \A k \in 1..Len(stack) : stack[k].listCalls <= 1
           /\ (pc = "loop" /\ Len(stack) > 0) => Top.listCalls = 1 )
    /\ [][ (pc = "loop" /\ Len(stack) > 1 /\ Top.items = <<>>) =>
             /\ Len(stack') = Len(stack) - 1
             /\ pc' = "loop"
             /\ fs' = fs /\ cur' = cur /\ order' = order /\ clean' = clean
         ]_vars

\* Tree B has been walked to the end: its empty directory was listed and left,
\* and the two items after it were dispatched.
C20_Witness ==
    /\ tree = "B" /\ status = "done"
    /\ order = <<6, 9, 7, 8>>
    /\ Count(pace, "dir") = 2

====
